---- MODULE Spec2Model ----
(***************************************************************************)
(* Task scheduler and reminder delivery engine of the toolbox:             *)
(* TaskScheduler (store), check_reminders (trigger scan) and               *)
(* run_scheduler_background_thread (dispatch loop), as written in          *)
(* src/modules/task_scheduler/model/mod.rs, together with the UI loop's    *)
(* calls into the store (src/handlers/task_scheduler.rs, src/app.rs).      *)
(*                                                                         *)
(* Task fields that no operation of the store reads or writes after        *)
(* construction (description, due_date, priority, created_at, tags) are    *)
(* not part of the state.  The clock is read by check_reminders only, so   *)
(* time advances at those calls.                                           *)
(***************************************************************************)
EXTENDS Integers, Sequences, FiniteSets, TLC

\* ---------------------------------------------------------------- bounds
\* number of add_task calls in one run
MaxAdds == 2
\* number of reminders stored at a time (all tasks together)
MaxReminders == 1
\* number of retry periods the clock runs through
MaxPeriods == 3

\* ------------------------------------------------------ program constants
MAX_RETRIES == 3
RETRY_DELAY == 300

\* ------------------------------------------------------------ input sets
\* the title typed into the form of the k-th add_task call
Titles == <<"A", "B", "C", "D">>
ReminderTypes == {"Email", "Notification", "Sms", "Both", "All"}
ReminderTimes == {1}
\* the instants at which the clock is read: before the reminder time, then
\* at the reminder time and whole retry periods after it, and one second
\* before the first period is over
Instants == {0, 1 + RETRY_DELAY} \cup {1 + k * (RETRY_DELAY + 1) : k \in 0..MaxPeriods}
TaskIds == 1..(MaxAdds + 1)

\* ------------------------------------------------------- Option / Result
None == <<>>
Some(v) == <<v>>
Ok == <<"Ok">>
Err(e) == <<"Err", e>>

\* the configurations load_email_config and load_sms_config find on disk
EmailConfigs == {Some("complete")}
SmsConfigs == {Some([enabled |-> TRUE, carrier |-> "verizon"])}

VARIABLES
    tasks,          \* TaskScheduler.tasks : HashMap<u32, Task>
    next_id,        \* TaskScheduler.next_id
    email_config,   \* TaskScheduler.email_config : Option<EmailConfig>
    sms_config,     \* TaskScheduler.sms_config : Option<SmsConfig>
    file,           \* content of the tasks file
    now,            \* Utc::now().timestamp() as last read by check_reminders
    lock,           \* holder of the Mutex<TaskScheduler>
    pc,             \* position of the background thread
    queue,          \* triggered_reminders still to be processed by the loop
    cur,            \* reminder_success / error_message of the tuple in hand
    hist,           \* per reminder: triggers so far, channels confirmed Ok
    issued          \* ids returned by add_task, in call order, each with the
                    \* ids that were stored when the call was made

vars == <<tasks, next_id, email_config, sms_config, file, now, lock, pc, queue, cur, hist, issued>>

\* ------------------------------------------------------------ data model
NewReminder(reminder_time, reminder_type) ==
    [reminder_time |-> reminder_time, reminder_type |-> reminder_type,
     sent |-> FALSE, retry_count |-> 0, last_attempt |-> None, error_message |-> None]

\* the tag field of the form left empty
NoTags == <<>>

NewTask(id, title, tags) ==
    [id |-> id, title |-> title, status |-> "Pending", reminders |-> <<>>, tags |-> tags]

Insert(ts, id, task) ==
    [k \in DOMAIN ts \cup {id} |-> IF k = id THEN task ELSE ts[k]]

Remove(ts, id) ==
    [k \in DOMAIN ts \ {id} |-> ts[k]]

\* ------------------------------------------------------------ persistence
\* serde_json writes an Option as null or as the value itself
to_json_option(o) == IF o = None THEN [null |-> TRUE] ELSE [null |-> FALSE, value |-> o[1]]

from_json_option(j) == IF j.null THEN None ELSE Some(j.value)

to_json_task(task) ==
    [task EXCEPT !.reminders =
        [i \in DOMAIN @ |-> [@[i] EXCEPT !.last_attempt = to_json_option(@),
                                         !.error_message = to_json_option(@)]]]

from_json_task(j) ==
    [j EXCEPT !.reminders =
        [i \in DOMAIN @ |-> [@[i] EXCEPT !.last_attempt = from_json_option(@),
                                         !.error_message = from_json_option(@)]]]

\* a HashMap is written as a JSON object: its members, in no order
to_json_map(ts) == {<<k, to_json_task(ts[k])>> : k \in DOMAIN ts}

from_json_map(obj) ==
    [k \in {m[1] : m \in obj} |-> from_json_task((CHOOSE m \in obj : m[1] = k)[2])]

\* serde_json::to_string(&(self.tasks.clone(), self.next_id)): the content
\* written to the tasks file
save_tasks(ts, nid) ==
    <<to_json_map(ts), nid>>

\* file: None when the tasks file does not exist, else Some(contents);
\* def: the fields as the constructor set them
load_tasks(f, def) ==
    IF f = None THEN def
    ELSE [tasks |-> from_json_map(f[1][1]), next_id |-> f[1][2]]

\* scheduler.rs: serde_json::to_string_pretty(&self.tasks)
scheduler_save_tasks(ts) ==
    to_json_map(ts)

\* scheduler.rs: next_id is set to the largest stored key plus one
scheduler_load_tasks(f, def) ==
    IF f = None THEN def
    ELSE LET ts == from_json_map(f[1])
         IN [tasks |-> ts,
             next_id |-> IF DOMAIN ts = {} THEN 0 + 1
                         ELSE (CHOOSE m \in DOMAIN ts : \A k \in DOMAIN ts : k <= m) + 1]

\* -------------------------------------------------------- store: CRUD
\* variant: next_id is not advanced
add_task_NoAdvance(ts, nid, title, tags) ==
    [tasks |-> Insert(ts, nid, NewTask(nid, title, tags)), next_id |-> nid, id |-> nid]

\* variant: the id is derived from the largest stored key
add_task_ReuseId(ts, nid, title, tags) ==
    LET id == IF DOMAIN ts = {} THEN 1 ELSE (CHOOSE m \in DOMAIN ts : \A k \in DOMAIN ts : k <= m) + 1
    IN [tasks |-> Insert(ts, id, NewTask(id, title, tags)), next_id |-> nid + 1, id |-> id]

add_task(ts, nid, title, tags) ==
    [tasks |-> Insert(ts, nid, NewTask(nid, title, tags)), next_id |-> nid + 1, id |-> nid]

\* variant: Ok is returned but the task stays in the map
delete_task_NoRemove(ts, id) ==
    IF id \notin DOMAIN ts
    THEN [tasks |-> ts, res |-> Err("Task not found"), saved |-> FALSE]
    ELSE [tasks |-> ts, res |-> Ok, saved |-> TRUE]

delete_task(ts, id) ==
    IF id \notin DOMAIN ts
    THEN [tasks |-> ts, res |-> Err("Task not found"), saved |-> FALSE]
    ELSE [tasks |-> Remove(ts, id), res |-> Ok, saved |-> TRUE]

\* variant: the task is inserted whether or not the id is stored
update_task_Upsert(ts, id, updated_task) ==
    [tasks |-> Insert(ts, id, updated_task), res |-> Ok, saved |-> TRUE]

update_task(ts, id, updated_task) ==
    IF id \notin DOMAIN ts
    THEN [tasks |-> ts, res |-> Err("Task not found"), saved |-> FALSE]
    ELSE [tasks |-> Insert(ts, id, updated_task), res |-> Ok, saved |-> TRUE]

\* variant: the new reminder is put in front of the list
add_reminder_to_task_Prepend(ts, task_id, reminder_time, reminder_type) ==
    IF task_id \notin DOMAIN ts
    THEN [tasks |-> ts, res |-> Err("Task not found"), saved |-> FALSE]
    ELSE [tasks |-> [ts EXCEPT ![task_id].reminders = <<NewReminder(reminder_time, reminder_type)>> \o @],
          res |-> Ok, saved |-> TRUE]

add_reminder_to_task(ts, task_id, reminder_time, reminder_type) ==
    IF task_id \notin DOMAIN ts
    THEN [tasks |-> ts, res |-> Err("Task not found"), saved |-> FALSE]
    ELSE [tasks |-> [ts EXCEPT ![task_id].reminders = Append(@, NewReminder(reminder_time, reminder_type))],
          res |-> Ok, saved |-> TRUE]

\* ------------------------------------------------- store: check_reminders
\* variant: no limit on the number of attempts
should_retry_Unbounded(r, t) ==
    /\ ~r.sent
    /\ (r.last_attempt = None \/ t - r.last_attempt[1] > 300)

\* variant: a gap of exactly 300 seconds is enough
should_retry_AtDelay(r, t) ==
    /\ ~r.sent
    /\ r.retry_count < 3
    /\ (r.last_attempt = None \/ t - r.last_attempt[1] >= 300)

\* variant: one attempt more
should_retry_OneMore(r, t) ==
    /\ ~r.sent
    /\ r.retry_count <= 3
    /\ (r.last_attempt = None \/ t - r.last_attempt[1] > 300)

\* variant: no retry delay
should_retry_NoDelay(r, t) ==
    /\ ~r.sent
    /\ r.retry_count < 3

\* variant: a reminder that was attempted is never retried
should_retry_Once(r, t) ==
    /\ ~r.sent
    /\ r.retry_count < 3
    /\ r.last_attempt = None

should_retry(r, t) ==
    /\ ~r.sent
    /\ r.retry_count < 3
    /\ (r.last_attempt = None \/ t - r.last_attempt[1] > 300)

\* variant: the sent flag is not looked at
Eligible_IgnoreSent(r, t) ==
    /\ r.reminder_time <= t
    /\ r.retry_count < 3
    /\ (r.last_attempt = None \/ t - r.last_attempt[1] > 300)

Eligible(r, t) ==
    ~r.sent /\ r.reminder_time <= t /\ should_retry(r, t)

\* variant: a trigger also clears the error of the previous attempt
TriggerReminder_ClearError(r, t) ==
    [r EXCEPT !.last_attempt = Some(t),
              !.retry_count = @ + 1,
              !.error_message = None,
              !.sent = IF r.reminder_type = "Notification" THEN TRUE ELSE @]

\* variant: the attempt is counted once for each channel action
TriggerReminder_PerChannel(r, t) ==
    [r EXCEPT !.last_attempt = Some(t),
              !.retry_count = @ + (CASE r.reminder_type = "Both" -> 2
                                     [] r.reminder_type = "All" -> 3
                                     [] OTHER -> 1),
              !.sent = IF r.reminder_type = "Notification" THEN TRUE ELSE @]

\* variant: the Notification branch does not set sent
TriggerReminder_NoSent(r, t) ==
    [r EXCEPT !.last_attempt = Some(t), !.retry_count = @ + 1]

\* variant: every triggered reminder is marked sent at once
TriggerReminder_SentAtOnce(r, t) ==
    [r EXCEPT !.last_attempt = Some(t), !.retry_count = @ + 1, !.sent = TRUE]

TriggerReminder(r, t) ==
    [r EXCEPT !.last_attempt = Some(t),
              !.retry_count = @ + 1,
              !.sent = IF r.reminder_type = "Notification" THEN TRUE ELSE @]

Tuple(id, title, ty, idx) ==
    [task_id |-> id, title |-> title, reminder_type |-> ty, reminder_index |-> idx]

\* variant: the Notification tuple carries the position too
TriggeredTuples_NotificationIndexed(id, title, r, i) ==
    CASE r.reminder_type = "Notification" -> <<Tuple(id, title, "Notification", Some(i))>>
      [] r.reminder_type = "Email" -> <<Tuple(id, title, "Email", Some(i))>>
      [] r.reminder_type = "Sms" -> <<Tuple(id, title, "Sms", Some(i))>>
      [] r.reminder_type = "Both" -> <<Tuple(id, title, "Email", Some(i))>>
      [] r.reminder_type = "All" -> <<Tuple(id, title, "Email", Some(i)), Tuple(id, title, "Sms", Some(i))>>

\* variant: Both is handled like All
TriggeredTuples_BothAsAll(id, title, r, i) ==
    CASE r.reminder_type = "Notification" -> <<Tuple(id, title, "Notification", None)>>
      [] r.reminder_type = "Email" -> <<Tuple(id, title, "Email", Some(i))>>
      [] r.reminder_type = "Sms" -> <<Tuple(id, title, "Sms", Some(i))>>
      [] r.reminder_type \in {"Both", "All"} -> <<Tuple(id, title, "Email", Some(i)), Tuple(id, title, "Sms", Some(i))>>

\* variant: positions counted from 1
TriggeredTuples_OneBased(id, title, r, i) ==
    CASE r.reminder_type = "Notification" -> <<Tuple(id, title, "Notification", None)>>
      [] r.reminder_type = "Email" -> <<Tuple(id, title, "Email", Some(i + 1))>>
      [] r.reminder_type = "Sms" -> <<Tuple(id, title, "Sms", Some(i + 1))>>
      [] r.reminder_type = "Both" -> <<Tuple(id, title, "Email", Some(i + 1))>>
      [] r.reminder_type = "All" -> <<Tuple(id, title, "Email", Some(i + 1)), Tuple(id, title, "Sms", Some(i + 1))>>

\* variant: All is handled like Both
TriggeredTuples_AllAsBoth(id, title, r, i) ==
    CASE r.reminder_type = "Notification" -> <<Tuple(id, title, "Notification", None)>>
      [] r.reminder_type = "Email" -> <<Tuple(id, title, "Email", Some(i))>>
      [] r.reminder_type = "Sms" -> <<Tuple(id, title, "Sms", Some(i))>>
      [] r.reminder_type \in {"Both", "All"} -> <<Tuple(id, title, "Email", Some(i))>>

\* what one triggered reminder pushes onto triggered_reminders; i is the
\* position from enumerate(), counted from 0
TriggeredTuples(id, title, r, i) ==
    CASE r.reminder_type = "Notification" -> <<Tuple(id, title, "Notification", None)>>
      [] r.reminder_type = "Email" -> <<Tuple(id, title, "Email", Some(i))>>
      [] r.reminder_type = "Sms" -> <<Tuple(id, title, "Sms", Some(i))>>
      [] r.reminder_type = "Both" -> <<Tuple(id, title, "Email", Some(i))>>
      [] r.reminder_type = "All" -> <<Tuple(id, title, "Email", Some(i)), Tuple(id, title, "Sms", Some(i))>>

\* what one triggered reminder pushes onto notification_tasks
NotificationTasks(title, r) ==
    IF r.reminder_type \in {"Notification", "Both", "All"} THEN <<title>> ELSE <<>>

RECURSIVE ScanTask(_, _, _, _)
ScanTask(id, task, t, n) ==
    IF n = 0 THEN [out |-> <<>>, notif |-> <<>>]
    ELSE LET before == ScanTask(id, task, t, n - 1)
             r == task.reminders[n]
         IN IF Eligible(r, t)
            THEN [out |-> before.out \o TriggeredTuples(id, task.title, r, n - 1),
                  notif |-> before.notif \o NotificationTasks(task.title, r)]
            ELSE before

RECURSIVE ScanTasks(_, _, _, _)
ScanTasks(ts, order, t, n) ==
    IF n = 0 THEN [out |-> <<>>, notif |-> <<>>]
    ELSE LET before == ScanTasks(ts, order, t, n - 1)
             this == ScanTask(order[n], ts[order[n]], t, Len(ts[order[n]].reminders))
         IN [out |-> before.out \o this.out, notif |-> before.notif \o this.notif]

\* the set of reminders the scan enters the trigger branch for
TriggeredKeys(ts, t) ==
    {k \in (DOMAIN ts) \X (0..MaxReminders) :
        k[2] < Len(ts[k[1]].reminders) /\ Eligible(ts[k[1]].reminders[k[2] + 1], t)}

\* variant: the store is saved only when a desktop notification was shown
check_reminders_SaveIfNotified(ts, t, order) ==
    LET scan == ScanTasks(ts, order, t, Len(order))
    IN [tasks |-> [k \in DOMAIN ts |->
                     [ts[k] EXCEPT !.reminders =
                        [i \in DOMAIN @ |-> IF Eligible(@[i], t) THEN TriggerReminder(@[i], t) ELSE @[i]]]],
        out |-> scan.out,
        notif |-> scan.notif,
        saved |-> scan.notif # <<>>]

\* order: the iteration order of the HashMap
check_reminders(ts, t, order) ==
    LET scan == ScanTasks(ts, order, t, Len(order))
    IN [tasks |-> [k \in DOMAIN ts |->
                     [ts[k] EXCEPT !.reminders =
                        [i \in DOMAIN @ |-> IF Eligible(@[i], t) THEN TriggerReminder(@[i], t) ELSE @[i]]]],
        out |-> scan.out,
        notif |-> scan.notif,
        saved |-> scan.out # <<>>]

Orders(S) ==
    {o \in [1..Cardinality(S) -> S] : \A i, j \in 1..Cardinality(S) : i # j => o[i] # o[j]}

\* ------------------------------------------ store: mark_reminder_as_sent
\* variant: the position is taken as counted from 1
mark_reminder_as_sent_OneBased(ts, task_id, reminder_index) ==
    IF task_id \notin DOMAIN ts
    THEN [tasks |-> ts, res |-> Err("Task not found"), saved |-> FALSE]
    ELSE IF reminder_index >= 1 /\ reminder_index <= Len(ts[task_id].reminders)
         THEN [tasks |-> [ts EXCEPT ![task_id].reminders[reminder_index].sent = TRUE],
               res |-> Ok, saved |-> TRUE]
         ELSE [tasks |-> ts, res |-> Err("Reminder index out of bounds"), saved |-> FALSE]

\* variant: a position past the end of the list is accepted
mark_reminder_as_sent_AnyIndex(ts, task_id, reminder_index) ==
    IF task_id \notin DOMAIN ts
    THEN [tasks |-> ts, res |-> Err("Task not found"), saved |-> FALSE]
    ELSE IF reminder_index < Len(ts[task_id].reminders)
         THEN [tasks |-> [ts EXCEPT ![task_id].reminders[reminder_index + 1].sent = TRUE],
               res |-> Ok, saved |-> TRUE]
         ELSE [tasks |-> ts, res |-> Ok, saved |-> TRUE]

mark_reminder_as_sent(ts, task_id, reminder_index) ==
    IF task_id \notin DOMAIN ts
    THEN [tasks |-> ts, res |-> Err("Task not found"), saved |-> FALSE]
    ELSE IF reminder_index < Len(ts[task_id].reminders)
         THEN [tasks |-> [ts EXCEPT ![task_id].reminders[reminder_index + 1].sent = TRUE],
               res |-> Ok, saved |-> TRUE]
         ELSE [tasks |-> ts, res |-> Err("Reminder index out of bounds"), saved |-> FALSE]

\* ------------------------------------------------------ store: delivery
\* carrier.to_lowercase(), on the carrier strings of SmsCarriers
to_lowercase(str) ==
    CASE str = "Verizon" -> "verizon"
      [] str = "AT&T" -> "at&t"
      [] OTHER -> str

\* variant: an unknown carrier gets a default gateway
get_sms_gateway_email_Default(carrier) ==
    LET c == to_lowercase(carrier)
    IN CASE c \in {"att", "at&t"} -> Some("txt.att.net")
         [] c = "verizon" -> Some("vtext.com")
         [] OTHER -> Some("tmomail.net")

\* the gateway domain of the carrier; the digits of the phone number are
\* put in front of it
get_sms_gateway_email(carrier) ==
    LET c == to_lowercase(carrier)
    IN CASE c \in {"att", "at&t"} -> Some("txt.att.net")
         [] c = "verizon" -> Some("vtext.com")
         [] c \in {"tmobile", "t-mobile"} -> Some("tmomail.net")
         [] c = "sprint" -> Some("messaging.sprintpcs.com")
         [] c = "boost" -> Some("myboostmobile.com")
         [] c = "cricket" -> Some("sms.cricketwireless.net")
         [] c = "metropcs" -> Some("mymetropcs.com")
         [] c = "virgin" -> Some("vmobl.com")
         [] c = "uscellular" -> Some("email.uscc.net")
         [] OTHER -> None

\* variant: the task is not looked up before the send
send_reminder_email_NoLookup(ts, ec, task_id, transport) ==
    IF ec = None THEN Err("Email configuration not set")
    ELSE IF ec[1] = "incomplete" THEN Err("Email configuration is incomplete")
    ELSE IF transport THEN Ok ELSE Err("Failed to send email")

\* transport: the result of mailer.send
send_reminder_email(ts, ec, task_id, transport) ==
    IF task_id \notin DOMAIN ts THEN Err("Task not found")
    ELSE IF ec = None THEN Err("Email configuration not set")
    ELSE IF ec[1] = "incomplete" THEN Err("Email configuration is incomplete")
    ELSE IF transport THEN Ok ELSE Err("Failed to send email")

\* variant: the email configuration is not asked for
send_sms_reminder_NoEmailCheck(ec, sc, transport) ==
    IF sc = None THEN Err("SMS configuration not set")
    ELSE IF ~sc[1].enabled THEN Err("SMS is disabled in configuration")
    ELSE IF get_sms_gateway_email(sc[1].carrier) = None THEN Err("Unsupported carrier")
    ELSE IF transport THEN Ok ELSE Err("Failed to send SMS")

send_sms_reminder(ec, sc, transport) ==
    IF sc = None THEN Err("SMS configuration not set")
    ELSE IF ~sc[1].enabled THEN Err("SMS is disabled in configuration")
    ELSE IF ec = None THEN Err("Email configuration required for SMS")
    ELSE IF get_sms_gateway_email(sc[1].carrier) = None THEN Err("Unsupported carrier")
    ELSE IF transport THEN Ok ELSE Err("Failed to send SMS")

\* ------------------------------------------------------------- history
Keys(ts) ==
    {k \in (DOMAIN ts) \X (0..MaxReminders) : k[2] < Len(ts[k[1]].reminders)}

NoHist == [trig |-> 0, ok |-> {}]

HistOf(h, k) == IF k \in DOMAIN h THEN h[k] ELSE NoHist

\* let mut reminder_success = false; let mut error_message = None;
NoResult == [reminder_success |-> FALSE, error_message |-> None]

\* ------------------------------------------------------------------ Init
Init ==
    /\ tasks = <<>>
    /\ next_id = 1
    /\ email_config \in EmailConfigs
    /\ sms_config \in SmsConfigs
    /\ file = None
    /\ now = 0
    /\ lock = "free"
    /\ pc = "sleep"
    /\ queue = <<>>
    /\ cur = NoResult
    /\ hist = <<>>
    /\ issued = <<>>

\* ------------------------------------------------------------- UI thread
Store(r, nid) ==
    /\ tasks' = r.tasks
    /\ next_id' = nid
    /\ file' = IF r.saved THEN Some(save_tasks(r.tasks, nid)) ELSE file

AddTask(title) ==
    /\ lock = "free"
    /\ Len(issued) < MaxAdds
    /\ LET r == add_task(tasks, next_id, title, NoTags)
       IN /\ tasks' = r.tasks
          /\ next_id' = r.next_id
          /\ file' = Some(save_tasks(r.tasks, r.next_id))
          /\ issued' = Append(issued, [id |-> r.id, live |-> DOMAIN tasks])
    /\ UNCHANGED <<email_config, sms_config, now, lock, pc, queue, cur, hist>>

\* key 'd': delete the selected task
DeleteTask(id) ==
    /\ lock = "free"
    /\ LET r == delete_task(tasks, id)
       IN Store(r, next_id)
    /\ hist' = [k \in {h \in DOMAIN hist : h[1] # id} |-> hist[k]]
    /\ UNCHANGED <<email_config, sms_config, now, lock, pc, queue, cur, issued>>

AddReminder(id, reminder_time, reminder_type) ==
    /\ lock = "free"
    /\ Cardinality(DOMAIN hist) < MaxReminders
    /\ LET r == add_reminder_to_task(tasks, id, reminder_time, reminder_type)
       IN /\ Store(r, next_id)
          /\ hist' = IF r.res = Ok
                     THEN [k \in DOMAIN hist \cup {<<id, Len(tasks[id].reminders)>>} |-> HistOf(hist, k)]
                     ELSE hist
    /\ UNCHANGED <<email_config, sms_config, now, lock, pc, queue, cur, issued>>

\* ------------------------------------------------- check_reminders calls
\* t: the clock reading of this call
Check(order, t) ==
    LET r == check_reminders(tasks, t, order)
    IN /\ now' = t
       /\ Store(r, next_id)
       /\ hist' = [k \in DOMAIN hist |->
                     IF k \in TriggeredKeys(tasks, t)
                     THEN [hist[k] EXCEPT !.trig = @ + 1] ELSE hist[k]]

\* the clock does not run backwards
Clock == {t \in Instants : t >= now}

\* the UI loop's periodic check: the returned tuples are only counted, so
\* the iteration order of the map is not observable here
UiCheckReminders ==
    /\ lock = "free"
    /\ \E t \in Clock : Check(CHOOSE o \in Orders(DOMAIN tasks) : TRUE, t)
    /\ UNCHANGED <<email_config, sms_config, lock, pc, queue, cur, issued>>

\* ----------------------------------------------------- background thread
BgCheck ==
    /\ pc = "sleep"
    /\ lock = "free"
    /\ \E order \in Orders(DOMAIN tasks), t \in Clock :
          /\ Check(order, t)
          /\ queue' = check_reminders(tasks, t, order).out
          /\ pc' = IF check_reminders(tasks, t, order).out = <<>> THEN "sleep" ELSE "dispatch"
    /\ UNCHANGED <<email_config, sms_config, lock, cur, issued>>

\* match reminder_type: Email and Sms take the lock for the send
BgDispatch ==
    /\ pc = "dispatch"
    /\ LET t == Head(queue)
       IN IF t.reminder_type \in {"Email", "Sms"}
          THEN /\ lock = "free"
               /\ lock' = "bg"
               /\ pc' = "sending"
               /\ cur' = NoResult
          ELSE /\ pc' = "commit"
               /\ cur' = [reminder_success |-> (t.reminder_type = "Notification"), error_message |-> None]
               /\ UNCHANGED lock
    /\ UNCHANGED <<tasks, next_id, email_config, sms_config, file, now, queue, hist, issued>>

\* variant: the guard of the send is still alive at the commit
BgSend_KeepGuard(transport) ==
    /\ pc = "sending"
    /\ LET t == Head(queue)
           res == IF t.reminder_type = "Email"
                  THEN send_reminder_email(tasks, email_config, t.task_id, transport)
                  ELSE send_sms_reminder(email_config, sms_config, transport)
           k == <<t.task_id, t.reminder_index[1]>>
       IN /\ cur' = IF res = Ok
                    THEN [reminder_success |-> TRUE, error_message |-> None]
                    ELSE [reminder_success |-> FALSE, error_message |-> Some(res[2])]
          /\ hist' = IF res = Ok /\ k \in DOMAIN hist
                     THEN [hist EXCEPT ![k].ok = @ \cup {t.reminder_type}]
                     ELSE hist
    /\ lock' = lock
    /\ pc' = "commit"
    /\ UNCHANGED <<tasks, next_id, email_config, sms_config, file, now, queue, issued>>

BgSend(transport) ==
    /\ pc = "sending"
    /\ LET t == Head(queue)
           res == IF t.reminder_type = "Email"
                  THEN send_reminder_email(tasks, email_config, t.task_id, transport)
                  ELSE send_sms_reminder(email_config, sms_config, transport)
           k == <<t.task_id, t.reminder_index[1]>>
       IN /\ cur' = IF res = Ok
                    THEN [reminder_success |-> TRUE, error_message |-> None]
                    ELSE [reminder_success |-> FALSE, error_message |-> Some(res[2])]
          /\ hist' = IF res = Ok /\ k \in DOMAIN hist
                     THEN [hist EXCEPT ![k].ok = @ \cup {t.reminder_type}]
                     ELSE hist
    /\ lock' = "free"
    /\ pc' = "commit"
    /\ UNCHANGED <<tasks, next_id, email_config, sms_config, file, now, queue, issued>>

\* variant: the error message is written without saving
write_error_message_NoSave(ts, task_id, index, error_message) ==
    IF task_id \in DOMAIN ts /\ index < Len(ts[task_id].reminders)
    THEN [tasks |-> [ts EXCEPT ![task_id].reminders[index + 1].error_message = error_message],
          res |-> Ok, saved |-> FALSE]
    ELSE [tasks |-> ts, res |-> Err("Task not found"), saved |-> FALSE]

\* the failure branch of the loop's status update
write_error_message(ts, task_id, index, error_message) ==
    IF task_id \in DOMAIN ts /\ index < Len(ts[task_id].reminders)
    THEN [tasks |-> [ts EXCEPT ![task_id].reminders[index + 1].error_message = error_message],
          res |-> Ok, saved |-> TRUE]
    ELSE [tasks |-> ts, res |-> Err("Task not found"), saved |-> FALSE]

\* variant: a failed delivery ends the cycle
BgCommit_BreakOnFailure ==
    /\ pc = "commit"
    /\ LET t == Head(queue)
       IN IF t.reminder_index # None
          THEN /\ lock = "free"
               /\ LET r == IF cur.reminder_success
                           THEN mark_reminder_as_sent(tasks, t.task_id, t.reminder_index[1])
                           ELSE write_error_message(tasks, t.task_id, t.reminder_index[1], cur.error_message)
                  IN Store(r, next_id)
          ELSE UNCHANGED <<tasks, next_id, file>>
    /\ queue' = IF cur.reminder_success THEN Tail(queue) ELSE <<>>
    /\ pc' = IF cur.reminder_success /\ Tail(queue) # <<>> THEN "dispatch" ELSE "sleep"
    /\ cur' = NoResult
    /\ UNCHANGED <<email_config, sms_config, now, lock, hist, issued>>

BgCommit ==
    /\ pc = "commit"
    /\ LET t == Head(queue)
       IN IF t.reminder_index # None
          THEN /\ lock = "free"
               /\ LET r == IF cur.reminder_success
                           THEN mark_reminder_as_sent(tasks, t.task_id, t.reminder_index[1])
                           ELSE write_error_message(tasks, t.task_id, t.reminder_index[1], cur.error_message)
                  IN Store(r, next_id)
          ELSE UNCHANGED <<tasks, next_id, file>>
    /\ queue' = Tail(queue)
    /\ pc' = IF Tail(queue) = <<>> THEN "sleep" ELSE "dispatch"
    /\ cur' = NoResult
    /\ UNCHANGED <<email_config, sms_config, now, lock, hist, issued>>

Next ==
    \/ AddTask(Titles[Len(issued) + 1])
    \/ \E id \in TaskIds : DeleteTask(id)
    \/ \E id \in TaskIds, rt \in ReminderTimes, ty \in ReminderTypes : AddReminder(id, rt, ty)
    \/ UiCheckReminders
    \/ BgCheck
    \/ BgDispatch
    \/ \E transport \in BOOLEAN : BgSend(transport)
    \/ BgCommit

Spec == Init /\ [][Next]_vars

\* the last instant of the run
LastInstant == 1 + MaxPeriods * (RETRY_DELAY + 1)

\* a scan of the loop that reads the clock at the last instant
BgCheckLate == BgCheck /\ now' = LastInstant

\* the next step of the thread inside a cycle
BgStep ==
    \/ BgDispatch
    \/ \E transport \in BOOLEAN : BgSend(transport)
    \/ BgCommit

\* the background thread is never stopped: it works through its cycle as
\* long as it can, and it scans again as time goes on to the last instant
FairSpec ==
    /\ Spec
    /\ WF_vars(BgCheckLate)
    /\ WF_vars(BgStep)

\* ==================================================================
\* Sms reminders under every kind of configuration the program can find
\* on disk when it starts.
\* ==================================================================
SmsCarriers == {"verizon", "Verizon", "vodafone"}

SmsEmailConfigs == {None, Some("complete")}

SmsSmsConfigs ==
    {None, Some([enabled |-> FALSE, carrier |-> "verizon"])}
        \cup {Some([enabled |-> TRUE, carrier |-> c]) : c \in SmsCarriers}

SmsInit ==
    /\ tasks = <<>>
    /\ next_id = 1
    /\ email_config \in SmsEmailConfigs
    /\ sms_config \in SmsSmsConfigs
    /\ file = None
    /\ now = 0
    /\ lock = "free"
    /\ pc = "sleep"
    /\ queue = <<>>
    /\ cur = NoResult
    /\ hist = <<>>
    /\ issued = <<>>

SmsNext ==
    \/ AddTask(Titles[Len(issued) + 1])
    \/ \E id \in TaskIds, rt \in ReminderTimes : AddReminder(id, rt, "Sms")
    \/ BgCheck
    \/ BgDispatch
    \/ \E transport \in BOOLEAN : BgSend(transport)
    \/ BgCommit

SmsSpec == SmsInit /\ [][SmsNext]_vars

\* ==================================================================
\* The store on its own: every operation of TaskScheduler as its callers
\* invoke it under the lock, with file writes that can fail and with the
\* process being started again on the file it left behind.
\* ==================================================================
\* one reminder type of each kind: handled inside check_reminders, deferred
\* to one send, deferred to two sends
StoreReminderTypes == {"Notification", "Email", "All"}

\* the clock readings of the store's check_reminders calls: the reminder
\* time and one retry period later
StoreClock == {t \in {1 + k * (RETRY_DELAY + 1) : k \in 0..1} : t >= now}

\* w: File::create and write_all succeed
StoreW(r, nid, w) ==
    /\ tasks' = r.tasks
    /\ next_id' = nid
    /\ file' = IF r.saved /\ w THEN Some(save_tasks(r.tasks, nid)) ELSE file

StAddTask(w) ==
    /\ Len(issued) < MaxAdds
    /\ LET r == add_task(tasks, next_id, Titles[Len(issued) + 1], NoTags)
       IN /\ StoreW([tasks |-> r.tasks, saved |-> TRUE], r.next_id, w)
          /\ issued' = Append(issued, [id |-> r.id, live |-> DOMAIN tasks])
    /\ UNCHANGED <<email_config, sms_config, now, lock, pc, queue, cur, hist>>

\* key 'c': the selected task is cloned, completed and written back
StUpdateTask(id, w) ==
    /\ id \in DOMAIN tasks
    /\ StoreW(update_task(tasks, id, [tasks[id] EXCEPT !.status = "Completed"]), next_id, w)
    /\ UNCHANGED <<email_config, sms_config, now, lock, pc, queue, cur, hist, issued>>

StDeleteTask(id, w) ==
    /\ StoreW(delete_task(tasks, id), next_id, w)
    /\ UNCHANGED <<email_config, sms_config, now, lock, pc, queue, cur, hist, issued>>

StAddReminder(id, reminder_time, reminder_type, w) ==
    /\ Cardinality(Keys(tasks)) < MaxReminders
    /\ StoreW(add_reminder_to_task(tasks, id, reminder_time, reminder_type), next_id, w)
    /\ UNCHANGED <<email_config, sms_config, now, lock, pc, queue, cur, hist, issued>>

StCheckReminders(t, w) ==
    /\ now' = t
    /\ StoreW(check_reminders(tasks, t, CHOOSE o \in Orders(DOMAIN tasks) : TRUE), next_id, w)
    /\ UNCHANGED <<email_config, sms_config, lock, pc, queue, cur, hist, issued>>

\* the loop's status update for a tuple (task_id, _, _, Some(index))
StCommit(task_id, index, success, w) ==
    /\ StoreW(IF success THEN mark_reminder_as_sent(tasks, task_id, index)
              ELSE write_error_message(tasks, task_id, index, Some("Failed to send email")),
              next_id, w)
    /\ UNCHANGED <<email_config, sms_config, now, lock, pc, queue, cur, hist, issued>>

\* the program is started again: TaskScheduler::new on the same file
StRestart ==
    /\ LET r == load_tasks(file, [tasks |-> <<>>, next_id |-> 1])
       IN tasks' = r.tasks /\ next_id' = r.next_id
    /\ UNCHANGED <<email_config, sms_config, file, now, lock, pc, queue, cur, hist, issued>>

StoreNext ==
    \/ \E w \in BOOLEAN : StAddTask(w)
    \/ \E id \in TaskIds, w \in BOOLEAN : StUpdateTask(id, w)
    \/ \E id \in TaskIds, w \in BOOLEAN : StDeleteTask(id, w)
    \/ \E id \in TaskIds, rt \in ReminderTimes, ty \in StoreReminderTypes, w \in BOOLEAN :
          StAddReminder(id, rt, ty, w)
    \/ \E t \in StoreClock, w \in BOOLEAN : StCheckReminders(t, w)
    \/ \E id \in TaskIds, i \in 0..(MaxReminders - 1), ok \in BOOLEAN, w \in BOOLEAN :
          StCommit(id, i, ok, w)
    \/ StRestart

StoreSpec == Init /\ [][StoreNext]_vars

\* the same store on a file system whose writes all succeed
StoreOkNext ==
    \/ StAddTask(TRUE)
    \/ \E id \in TaskIds : StUpdateTask(id, TRUE)
    \/ \E id \in TaskIds : StDeleteTask(id, TRUE)
    \/ \E id \in TaskIds, rt \in ReminderTimes, ty \in StoreReminderTypes :
          StAddReminder(id, rt, ty, TRUE)
    \/ \E t \in StoreClock : StCheckReminders(t, TRUE)
    \/ \E id \in TaskIds, i \in 0..(MaxReminders - 1), ok \in BOOLEAN :
          StCommit(id, i, ok, TRUE)
    \/ StRestart

StoreOkSpec == Init /\ [][StoreOkNext]_vars

\* ==================================================================
\* The store of scheduler.rs (the TaskScheduler that model/mod.rs
\* re-exports): the same map and counter, a file that holds the map only,
\* and operations that return the write error to the caller.
\* ==================================================================
\* w: fs::write succeeds
scheduler_add_task(ts, nid, task, w) ==
    [tasks |-> Insert(ts, nid, [task EXCEPT !.id = nid]),
     next_id |-> nid + 1,
     res |-> IF w THEN <<"Ok", nid>> ELSE Err("Io"),
     saved |-> w]

scheduler_update_task(ts, id, task, w) ==
    IF id \in DOMAIN ts
    THEN [tasks |-> Insert(ts, id, task), res |-> IF w THEN Ok ELSE Err("Io"), saved |-> w]
    ELSE [tasks |-> ts, res |-> Err("TaskNotFound"), saved |-> FALSE]

scheduler_delete_task(ts, id, w) ==
    IF id \in DOMAIN ts
    THEN [tasks |-> Remove(ts, id), res |-> IF w THEN Ok ELSE Err("Io"), saved |-> w]
    ELSE [tasks |-> ts, res |-> Err("TaskNotFound"), saved |-> FALSE]

SchStore(r, nid) ==
    /\ tasks' = r.tasks
    /\ next_id' = nid
    /\ file' = IF r.saved THEN Some(scheduler_save_tasks(r.tasks)) ELSE file

\* the task handed to add_task carries id 0 until the store assigns one
SchAddTask(w) ==
    /\ Len(issued) < MaxAdds
    /\ LET r == scheduler_add_task(tasks, next_id, NewTask(0, Titles[Len(issued) + 1], NoTags), w)
       IN /\ SchStore(r, r.next_id)
          /\ issued' = Append(issued, [id |-> next_id, live |-> DOMAIN tasks, res |-> r.res])
    /\ UNCHANGED <<email_config, sms_config, now, lock, pc, queue, cur, hist>>

SchUpdateTask(id, w) ==
    /\ id \in DOMAIN tasks
    /\ SchStore(scheduler_update_task(tasks, id, [tasks[id] EXCEPT !.status = "Completed"], w), next_id)
    /\ UNCHANGED <<email_config, sms_config, now, lock, pc, queue, cur, hist, issued>>

SchDeleteTask(id, w) ==
    /\ SchStore(scheduler_delete_task(tasks, id, w), next_id)
    /\ UNCHANGED <<email_config, sms_config, now, lock, pc, queue, cur, hist, issued>>

\* the program is started again: TaskScheduler::new on the same file
SchRestart ==
    /\ LET r == scheduler_load_tasks(file, [tasks |-> <<>>, next_id |-> 1])
       IN tasks' = r.tasks /\ next_id' = r.next_id
    /\ UNCHANGED <<email_config, sms_config, file, now, lock, pc, queue, cur, hist, issued>>

SchedulerNext ==
    \/ \E w \in BOOLEAN : SchAddTask(w)
    \/ \E id \in TaskIds, w \in BOOLEAN : SchUpdateTask(id, w)
    \/ \E id \in TaskIds, w \in BOOLEAN : SchDeleteTask(id, w)
    \/ SchRestart

SchedulerSpec == Init /\ [][SchedulerNext]_vars

\* ------------------------------------------------- the add-task form: tags
\* the text of the tags field is a sequence of characters, a tag the
\* sequence of the characters it is made of
MaxTagText == 3
TagChars == {"a", "b", ",", " "}
TagTexts == UNION {[1..n -> TagChars] : n \in 0..MaxTagText}

\* str::split: the pieces between the separators, empty pieces included
RECURSIVE split(_, _)
split(text, sep) ==
    IF \A i \in 1..Len(text) : text[i] # sep
    THEN <<text>>
    ELSE LET p == CHOOSE i \in 1..Len(text) : text[i] = sep /\ \A j \in 1..(i - 1) : text[j] # sep
         IN <<SubSeq(text, 1, p - 1)>> \o split(SubSeq(text, p + 1, Len(text)), sep)

RECURSIVE trim_start(_)
trim_start(str) ==
    IF str # <<>> /\ Head(str) = " " THEN trim_start(Tail(str)) ELSE str

RECURSIVE trim_end(_)
trim_end(str) ==
    IF str # <<>> /\ str[Len(str)] = " " THEN trim_end(SubSeq(str, 1, Len(str) - 1)) ELSE str

trim(str) == trim_end(trim_start(str))

\* task_tags.split(',').map(trim).filter(not empty).collect()
parse_tags(task_tags) ==
    LET pieces == split(task_tags, ",")
    IN SelectSeq([i \in 1..Len(pieces) |-> trim(pieces[i])], LAMBDA tag : tag # <<>>)

\* Enter in the add-task form, the due date being valid
handle_adding_task_mode(task_tags) ==
    /\ lock = "free"
    /\ Len(issued) < MaxAdds
    /\ LET r == add_task(tasks, next_id, Titles[Len(issued) + 1], parse_tags(task_tags))
       IN /\ tasks' = r.tasks
          /\ next_id' = r.next_id
          /\ file' = Some(save_tasks(r.tasks, r.next_id))
          /\ issued' = Append(issued, [id |-> r.id, live |-> DOMAIN tasks])
    /\ UNCHANGED <<email_config, sms_config, now, lock, pc, queue, cur, hist>>

FormNext ==
    \/ \E task_tags \in TagTexts : handle_adding_task_mode(task_tags)
    \/ \E id \in TaskIds : DeleteTask(id)

FormSpec == Init /\ [][FormNext]_vars

\* ------------------------------------------------- the text of an SMS
\* A text is a sequence of characters, a character is named by a string;
\* "U+00E9" is a character of two bytes in UTF-8, every other one is ASCII.
len_utf8(c) == IF c = "U+00E9" THEN 2 ELSE 1

\* str::len: the length in bytes, the characters of each width counted
len(str) ==
    LET of_width(w) == Cardinality({i \in 1..Len(str) : len_utf8(str[i]) = w})
    IN of_width(1) + 2 * of_width(2)

Panic == <<"panic">>

\* &str[..n]: the characters that make up the first n bytes; the slice
\* panics when byte n is not a character boundary
slice_to(str, n) ==
    IF \E k \in 0..Len(str) : len(SubSeq(str, 1, k)) = n
    THEN Some(SubSeq(str, 1, CHOOSE k \in 0..Len(str) : len(SubSeq(str, 1, k)) = n))
    ELSE Panic

\* let sms_message = if message.len() > 160 { format!("{}...", &message[..157]) }
\*                   else { message.to_string() }
sms_message(message) ==
    IF len(message) > 160
    THEN IF slice_to(message, 157) = Panic
         THEN Panic
         ELSE Some(slice_to(message, 157)[1] \o <<".", ".", ".">>)
    ELSE Some(message)

\* format!("Task Reminder: {}", task_title)
format_sms(task_title) ==
    <<"T", "a", "s", "k", " ", "R", "e", "m", "i", "n", "d", "e", "r", ":", " ">> \o task_title

\* a title of a ASCII characters followed by b two-byte characters
Text(a, b) == [i \in 1..(a + b) |-> IF i <= a THEN "x" ELSE "U+00E9"]

\* titles around the limit; the message is the title and 15 bytes more:
\* 16, 160 and 161 bytes of ASCII, then 162 and 163 bytes (89 and 90
\* characters) with byte 157 inside and at the start of a character
TitleTexts == {Text(1, 0), Text(145, 0), Text(146, 0), Text(1, 73), Text(2, 73)}

\* the Sms arm of the loop with the message it builds; the body is what
\* Message::builder().body() is given, whatever the transport does later
TextSend(transport) ==
    /\ pc = "sending"
    /\ Head(queue).reminder_type = "Sms"
    /\ LET t == Head(queue)
           ready == send_sms_reminder(email_config, sms_config, TRUE) = Ok
           body == sms_message(format_sms(t.title))
           res == send_sms_reminder(email_config, sms_config, transport)
       IN IF ready /\ body = Panic
          THEN /\ pc' = "panicked"
               /\ lock' = "poisoned"
               /\ UNCHANGED cur
          ELSE /\ cur' = IF res = Ok
                         THEN [reminder_success |-> TRUE, error_message |-> None,
                               body |-> IF ready THEN body ELSE None]
                         ELSE [reminder_success |-> FALSE, error_message |-> Some(res[2]),
                               body |-> IF ready THEN body ELSE None]
               /\ lock' = "free"
               /\ pc' = "commit"
    /\ UNCHANGED <<tasks, next_id, email_config, sms_config, file, now, queue, hist, issued>>

TextNext ==
    \/ \E title \in TitleTexts : AddTask(title)
    \/ \E id \in TaskIds, rt \in ReminderTimes : AddReminder(id, rt, "Sms")
    \/ BgCheck
    \/ BgDispatch
    \/ \E transport \in BOOLEAN : TextSend(transport)
    \/ BgCommit

TextSpec == Init /\ [][TextNext]_vars

\* ------------------------------------- UI operations during a delivery
\* The loop with the store operations of the task list view running
\* between its steps; two reminders can be stored at a time, so that a
\* position can be taken for another one.
MaxStored == MaxReminders + 1
DeferredTypes == {"Email", "Sms"}

\* key 'c': the selected task is cloned, completed and written back
MarkCompleted(id) ==
    /\ lock = "free"
    /\ id \in DOMAIN tasks
    /\ tasks[id].status # "Completed"
    /\ Store(update_task(tasks, id, [tasks[id] EXCEPT !.status = "Completed"]), next_id)
    /\ UNCHANGED <<email_config, sms_config, now, lock, pc, queue, cur, hist, issued>>

ViewAddReminder(id, reminder_time, reminder_type) ==
    /\ lock = "free"
    /\ Cardinality(Keys(tasks)) < MaxStored
    /\ id \in DOMAIN tasks
    /\ LET r == add_reminder_to_task(tasks, id, reminder_time, reminder_type)
       IN /\ Store(r, next_id)
          /\ hist' = [k \in DOMAIN hist \cup {<<id, Len(tasks[id].reminders)>>} |-> HistOf(hist, k)]
    /\ UNCHANGED <<email_config, sms_config, now, lock, pc, queue, cur, issued>>

ViewNext ==
    \/ AddTask(Titles[Len(issued) + 1])
    \/ \E id \in TaskIds : DeleteTask(id)
    \/ \E id \in TaskIds : MarkCompleted(id)
    \/ \E id \in TaskIds, rt \in ReminderTimes, ty \in DeferredTypes : ViewAddReminder(id, rt, ty)
    \/ BgCheck
    \/ BgDispatch
    \/ \E transport \in BOOLEAN : BgSend(transport)
    \/ BgCommit

ViewSpec == Init /\ [][ViewNext]_vars

\* ==================================================================
\* Properties
\* ==================================================================
ReminderAt(ts, k) == ts[k[1]].reminders[k[2] + 1]

\* every call of check_reminders that can be made in the current state
Calls == Clock \X Orders(DOMAIN tasks)

Result(c) == check_reminders(tasks, c[1], c[2])

\* the tuples of out that carry the position of reminder k
IndexedTuples(out, k) ==
    SelectSeq(out, LAMBDA tu : tu.task_id = k[1] /\ tu.reminder_index = Some(k[2]))

\* the Notification tuples of out for one task
NotificationTuples(out, id) ==
    SelectSeq(out, LAMBDA tu : tu.task_id = id /\ tu.reminder_type = "Notification")

\* the condition of the data model, in the words of the specification
SpecEligible(r, t) ==
    /\ r.sent = FALSE
    /\ r.reminder_time <= t
    /\ r.retry_count < MAX_RETRIES
    /\ (r.last_attempt = None \/ t - r.last_attempt[1] > RETRY_DELAY)

\* the reminders of task id that are due and of type Notification
DueNotifications(id, t) ==
    {k \in Keys(tasks) : k[1] = id /\ ReminderAt(tasks, k).reminder_type = "Notification"
                                   /\ SpecEligible(ReminderAt(tasks, k), t)}

\* reminder k is left alone by the call with result res: the record is the
\* same, no tuple carries its position, and the Notification tuples of its
\* task are all accounted for by other reminders
NotTriggered(res, k, t) ==
    /\ ReminderAt(res.tasks, k) = ReminderAt(tasks, k)
    /\ IndexedTuples(res.out, k) = <<>>
    /\ Len(NotificationTuples(res.out, k[1])) = Cardinality(DueNotifications(k[1], t) \ {k})

\* reminder k is triggered by the call with result res at time t: attempt
\* bookkeeping is updated and the channel actions of its type are emitted
IsTriggered(res, k, t) ==
    LET r == ReminderAt(tasks, k)
        r2 == ReminderAt(res.tasks, k)
        title == tasks[k[1]].title
    IN /\ r2.last_attempt = Some(t)
       /\ r2.retry_count = r.retry_count + 1
       /\ r.reminder_type \in {"Email", "Both", "All"} =>
             \E i \in 1..Len(res.out) : res.out[i] = Tuple(k[1], title, "Email", Some(k[2]))
       /\ r.reminder_type \in {"Sms", "All"} =>
             \E i \in 1..Len(res.out) : res.out[i] = Tuple(k[1], title, "Sms", Some(k[2]))
       /\ r.reminder_type = "Notification" =>
             /\ Len(NotificationTuples(res.out, k[1])) = Cardinality(DueNotifications(k[1], t))
             /\ \E i \in 1..Len(res.out) : res.out[i] = Tuple(k[1], title, "Notification", None)
       /\ r.reminder_type \in {"Notification", "Both", "All"} =>
             \E i \in 1..Len(res.notif) : res.notif[i] = title

\* ------------------------------------------------------------------ C1
\* C1: the ids returned by add_task are strictly increasing in call order,
\* so no id is returned twice, also when tasks were deleted between the
\* calls.
C1_IdsStrictlyIncreasing ==
    \A i, j \in 1..Len(issued) : i < j => issued[i].id < issued[j].id

\* an add_task call made after the earlier task had been deleted
C1_Witness ==
    /\ Len(issued) = 2
    /\ issued[2].live = {}
    /\ issued[2].id > issued[1].id

\* ------------------------------------------------------------------ C2
\* C2: a call of check_reminders at time t triggers a reminder exactly
\* when the reminder is unsent, due at t, has fewer than 3 attempts and
\* was never attempted or was last attempted more than 300 seconds
\* before t.
C2_TriggersIffEligible ==
    \A c \in Calls : \A k \in Keys(tasks) :
        IF SpecEligible(ReminderAt(tasks, k), c[1])
        THEN IsTriggered(Result(c), k, c[1])
        ELSE NotTriggered(Result(c), k, c[1])

\* a reminder that was attempted exactly 300 seconds before the last clock
\* reading, and was not triggered by that call
C2_Witness ==
    \E k \in Keys(tasks) :
        LET r == ReminderAt(tasks, k)
        IN /\ ~r.sent
           /\ r.retry_count = 1
           /\ r.last_attempt # None
           /\ now - r.last_attempt[1] = RETRY_DELAY

\* ------------------------------------------------------------------ C3
\* C3: a reminder whose sent flag is true is not triggered by any call of
\* check_reminders, whatever the clock reading.
C3_SentNeverTriggered ==
    \A c \in Calls : \A k \in Keys(tasks) :
        ReminderAt(tasks, k).sent => NotTriggered(Result(c), k, c[1])

\* a sent reminder with attempts left, over which a check has passed more
\* than 300 seconds after its last attempt
C3_Witness ==
    \E k \in Keys(tasks) :
        LET r == ReminderAt(tasks, k)
        IN /\ r.sent
           /\ r.retry_count < MAX_RETRIES
           /\ r.last_attempt # None
           /\ now - r.last_attempt[1] > RETRY_DELAY

\* ------------------------------------------------------------------ C4
\* C4: a reminder is triggered at most 3 times and its retry_count never
\* exceeds 3; once it has been triggered 3 times without being sent, no
\* call of check_reminders triggers it, however late the clock.
C4_RetryBound ==
    \A k \in Keys(tasks) :
        /\ ReminderAt(tasks, k).retry_count <= MAX_RETRIES
        /\ hist[k].trig <= MAX_RETRIES
        /\ (hist[k].trig >= MAX_RETRIES /\ ~ReminderAt(tasks, k).sent) =>
              \A c \in Calls : NotTriggered(Result(c), k, c[1])

\* an unsent reminder triggered 3 times, over which a check has passed
\* more than 300 seconds after the third attempt
C4_Witness ==
    \E k \in Keys(tasks) :
        LET r == ReminderAt(tasks, k)
        IN /\ ~r.sent
           /\ hist[k].trig = MAX_RETRIES
           /\ now - r.last_attempt[1] > RETRY_DELAY
\* ------------------------------------------------------------------ C5
\* C5: when a reminder that was attempted before is triggered again, by the
\* background loop or by the UI loop, the new last_attempt is at least 300
\* seconds after the previous one.
C5_RetrySpacing ==
    [][\A k \in Keys(tasks) \cap Keys(tasks') :
          LET r == ReminderAt(tasks, k)
              r2 == ReminderAt(tasks', k)
          IN (r.last_attempt # None /\ r2.last_attempt # r.last_attempt) =>
                r2.last_attempt[1] - r.last_attempt[1] >= RETRY_DELAY]_vars

\* a reminder triggered a second time while still unsent
C5_Witness ==
    \E k \in Keys(tasks) :
        /\ hist[k].trig = 2
        /\ ReminderAt(tasks, k).retry_count = 2
        /\ ReminderAt(tasks, k).last_attempt = Some(now)

\* ------------------------------------------------------------------ C6
\* C6: a reminder of type Notification that a call of check_reminders
\* triggers has sent = true when the call returns; no stored Notification
\* reminder has been attempted and is still unsent.
C6_NotificationImmediate ==
    /\ \A c \in Calls : \A k \in Keys(tasks) :
          (ReminderAt(tasks, k).reminder_type = "Notification"
              /\ SpecEligible(ReminderAt(tasks, k), c[1])) =>
                 ReminderAt(Result(c).tasks, k).sent
    /\ \A k \in Keys(tasks) :
          (ReminderAt(tasks, k).reminder_type = "Notification" /\ hist[k].trig > 0) =>
              ReminderAt(tasks, k).sent

\* a Notification reminder right after the call that triggered it
C6_Witness ==
    \E k \in Keys(tasks) :
        /\ ReminderAt(tasks, k).reminder_type = "Notification"
        /\ hist[k].trig = 1
        /\ ReminderAt(tasks, k).last_attempt = Some(now)
        /\ ReminderAt(tasks, k).sent

\* ------------------------------------------------------------------ C7
\* the store holds one task whose only reminder is an Email reminder that
\* was never attempted
OneFreshEmail(id) ==
    /\ DOMAIN tasks = {id}
    /\ Len(tasks[id].reminders) = 1
    /\ tasks[id].reminders[1].reminder_type = "Email"
    /\ tasks[id].reminders[1].retry_count = 0
    /\ tasks[id].reminders[1].last_attempt = None
    /\ ~tasks[id].reminders[1].sent

C7_OneTuple ==
    \A id \in DOMAIN tasks : \A c \in Calls :
        (OneFreshEmail(id) /\ tasks[id].reminders[1].reminder_time <= c[1]) =>
            /\ Result(c).out = <<Tuple(id, tasks[id].title, "Email", Some(0))>>
            /\ Result(c).tasks[id].reminders[1].retry_count = 1
            /\ ~Result(c).tasks[id].reminders[1].sent

\* the step that sets sent of an Email reminder is the loop's call
\* mark_reminder_as_sent(task_id, index) for that reminder
C7_SentOnlyByMark ==
    \A k \in Keys(tasks) \cap Keys(tasks') :
        (ReminderAt(tasks, k).reminder_type = "Email"
            /\ ~ReminderAt(tasks, k).sent /\ ReminderAt(tasks', k).sent) =>
               /\ pc = "commit"
               /\ cur.reminder_success
               /\ Head(queue).task_id = k[1]
               /\ Head(queue).reminder_index = Some(k[2])

\* C7: with one task holding a single due Email reminder, check_reminders
\* returns exactly the tuple (task_id, title, Email, Some(0)) and leaves
\* the reminder with retry_count = 1 and sent = false; sent of an Email
\* reminder becomes true only in a step that calls mark_reminder_as_sent
\* for that task and index.
C7_EmailScenario ==
    []C7_OneTuple /\ [][C7_SentOnlyByMark]_vars

\* the loop holds the one tuple of the scenario, the reminder is attempted
\* once and unsent
C7_Witness ==
    \E id \in DOMAIN tasks :
        /\ DOMAIN tasks = {id}
        /\ Len(tasks[id].reminders) = 1
        /\ tasks[id].reminders[1].reminder_type = "Email"
        /\ tasks[id].reminders[1].retry_count = 1
        /\ ~tasks[id].reminders[1].sent
        /\ pc = "dispatch"
        /\ queue = <<Tuple(id, tasks[id].title, "Email", Some(0))>>
\* ------------------------------------------------------------------ C8
\* the tuples of out that a reminder of type All at position k can account
\* for: those carrying its position and the Notification tuples of its task
TuplesOfAll(out, k) ==
    SelectSeq(out, LAMBDA tu : tu.task_id = k[1]
                      /\ (tu.reminder_index = Some(k[2]) \/ tu.reminder_type = "Notification"))

\* C8 as stated: a triggered reminder of type All yields exactly three
\* tuples, one Notification tuple and the Email and Sms tuples.
C8_ThreeTuples ==
    \A c \in Calls : \A k \in Keys(tasks) :
        (ReminderAt(tasks, k).reminder_type = "All" /\ SpecEligible(ReminderAt(tasks, k), c[1])) =>
            /\ Len(TuplesOfAll(Result(c).out, k)) = 3
            /\ \E i \in 1..Len(Result(c).out) :
                  /\ Result(c).out[i].task_id = k[1]
                  /\ Result(c).out[i].reminder_type = "Notification"

\* C8: a triggered reminder of type All yields exactly two tuples, Email
\* then Sms, both carrying the reminder's index; its notification leg is
\* handed to the desktop notifier inside the call and has no tuple, and
\* the reminder is still unsent when the call returns.
C8_TwoTuples ==
    \A c \in Calls : \A k \in Keys(tasks) :
        (ReminderAt(tasks, k).reminder_type = "All" /\ SpecEligible(ReminderAt(tasks, k), c[1])) =>
            /\ IndexedTuples(Result(c).out, k) =
                  <<Tuple(k[1], tasks[k[1]].title, "Email", Some(k[2])),
                    Tuple(k[1], tasks[k[1]].title, "Sms", Some(k[2]))>>
            /\ Len(NotificationTuples(Result(c).out, k[1])) = Cardinality(DueNotifications(k[1], c[1]))
            /\ \E i \in 1..Len(Result(c).notif) : Result(c).notif[i] = tasks[k[1]].title
            /\ ~ReminderAt(Result(c).tasks, k).sent

\* the loop holds the tuples of a reminder of type All it has just triggered
C8_Witness ==
    \E k \in Keys(tasks) :
        /\ ReminderAt(tasks, k).reminder_type = "All"
        /\ hist[k].trig = 1
        /\ pc = "dispatch"
        /\ queue = <<Tuple(k[1], tasks[k[1]].title, "Email", Some(k[2])),
                     Tuple(k[1], tasks[k[1]].title, "Sms", Some(k[2]))>>

\* ------------------------------------------------------------------ C9
C9_SentImpliesOk ==
    \A k \in Keys(tasks) :
        ReminderAt(tasks, k).reminder_type = "Email" =>
            /\ ReminderAt(tasks, k).sent => "Email" \in hist[k].ok
            /\ \A c \in Calls : ReminderAt(Result(c).tasks, k).sent = ReminderAt(tasks, k).sent

\* the reminder the loop's tuple in hand points at
InHand == <<Head(queue).task_id, Head(queue).reminder_index[1]>>

\* the send leaves the store alone, and the commit of a failed Email send
\* leaves its reminder unsent with its attempt bookkeeping as it was
C9_SendAndFailure ==
    /\ (pc = "sending" /\ pc' = "commit") => tasks' = tasks
    /\ (pc = "commit" /\ pc' # "commit" /\ ~cur.reminder_success
           /\ Head(queue).reminder_type = "Email" /\ InHand \in Keys(tasks)
           /\ ReminderAt(tasks, InHand).reminder_type = "Email") =>
              /\ InHand \in Keys(tasks')
              /\ ~ReminderAt(tasks', InHand).sent
              /\ ReminderAt(tasks', InHand).retry_count = ReminderAt(tasks, InHand).retry_count
              /\ ReminderAt(tasks', InHand).last_attempt = ReminderAt(tasks, InHand).last_attempt
              /\ ReminderAt(tasks', InHand).reminder_time = ReminderAt(tasks, InHand).reminder_time

C10_SentOnlyAfterAllLegs ==
    \A k \in Keys(tasks) :
        /\ (ReminderAt(tasks, k).reminder_type = "All" /\ ReminderAt(tasks, k).sent) =>
              {"Email", "Sms"} \subseteq hist[k].ok
        /\ (ReminderAt(tasks, k).reminder_type = "Both" /\ ReminderAt(tasks, k).sent) =>
              "Email" \in hist[k].ok

\* ----------------------------------------------------------------- C11
\* C11: while the loop's send_reminder_email or send_sms_reminder call is
\* in progress the store lock is not held by the background thread, so a
\* UI operation can take it.
C11_LockFreeDuringSend ==
    pc = "sending" => lock = "free"

\* ----------------------------------------------------------------- C12
\* the tuple in hand names a task that is no longer stored
TaskGone ==
    queue # <<>> /\ Head(queue).task_id \notin DOMAIN tasks

C12_DeletedTaskStep ==
    /\ (pc = "sending" /\ pc' = "commit" /\ TaskGone /\ Head(queue).reminder_type = "Email") =>
          cur' = [reminder_success |-> FALSE, error_message |-> Some("Task not found")]
    /\ (pc = "commit" /\ pc' # "commit" /\ TaskGone) =>
          /\ tasks' = tasks
          /\ next_id' = next_id
          /\ file' = file
          /\ queue' = Tail(queue)
          /\ pc' = IF Tail(queue) = <<>> THEN "sleep" ELSE "dispatch"

\* C12: when the task of a deferred tuple was deleted after the scan, the
\* send_reminder_email call for it returns the not-found error, the commit
\* step for the tuple leaves tasks, next_id and the file as they are, and
\* the loop moves on to the next tuple of the cycle.
C12_DeletedTaskIsNotFound ==
    [][C12_DeletedTaskStep]_vars

\* the Email send for a deleted task has returned not-found and another
\* tuple of the same cycle is still waiting
C12_Witness ==
    /\ pc = "commit"
    /\ TaskGone
    /\ Len(queue) = 2
    /\ Head(queue).reminder_type = "Email"
    /\ cur = [reminder_success |-> FALSE, error_message |-> Some("Task not found")]

\* ----------------------------------------------------------------- C13
\* C13: a mark_reminder_as_sent(task_id, index) call that returns Ok
\* leaves the reminder at that index with sent = true and error_message =
\* None, persists the store, and changes no other reminder or task.
C13_MarkSetsSentClearsError ==
    \A k \in Keys(tasks) :
        LET res == mark_reminder_as_sent(tasks, k[1], k[2])
        IN res.res = Ok =>
              /\ ReminderAt(res.tasks, k).sent
              /\ ReminderAt(res.tasks, k).error_message = None
              /\ res.saved
              /\ DOMAIN res.tasks = DOMAIN tasks
              /\ \A j \in Keys(tasks) \ {k} : ReminderAt(res.tasks, j) = ReminderAt(tasks, j)

\* ----------------------------------------------------------------- C14
C14_FailureCommitStep ==
    (pc = "commit" /\ pc' # "commit" /\ ~cur.reminder_success
        /\ Head(queue).reminder_type \in {"Email", "Sms"} /\ InHand \in Keys(tasks)) =>
           /\ cur.error_message # None
           /\ InHand \in Keys(tasks')
           /\ ReminderAt(tasks', InHand).error_message = cur.error_message
           /\ ReminderAt(tasks', InHand).sent = ReminderAt(tasks, InHand).sent
           /\ ReminderAt(tasks', InHand).retry_count = ReminderAt(tasks, InHand).retry_count
           /\ ReminderAt(tasks', InHand).retry_count >= 1
           /\ ReminderAt(tasks', InHand).last_attempt = ReminderAt(tasks, InHand).last_attempt
           /\ file' = Some(save_tasks(tasks', next_id'))

C15_SleepsWhenDone ==
    (pc = "sleep") <=> (queue = <<>>)

\* the tuples of a cycle are taken in order: a tuple leaves the queue only
\* in its commit step, which follows its own dispatch, and after the commit
\* the loop turns to the next tuple whether the delivery succeeded or not
C15_CycleStep ==
    /\ queue' # queue =>
          \/ pc = "sleep" /\ queue = <<>> /\ pc' = "dispatch"
          \/ pc = "commit" /\ queue' = Tail(queue)
    /\ (pc = "dispatch" /\ pc' # pc) => (pc' \in {"sending", "commit"} /\ queue' = queue)
    /\ (pc = "sending" /\ pc' # pc) => (pc' = "commit" /\ queue' = queue)
    /\ (pc = "commit" /\ pc' # pc) =>
          (queue' = Tail(queue) /\ pc' = IF Tail(queue) = <<>> THEN "sleep" ELSE "dispatch")
    /\ (pc = "sleep" /\ pc' # pc) => pc' = "dispatch"

Fresh == [tasks |-> <<>>, next_id |-> 1]

\* the store of mod.rs: what load_tasks reads back from what save_tasks
\* wrote is the task map and next_id in memory
RoundTrip ==
    load_tasks(Some(save_tasks(tasks, next_id)), Fresh) = [tasks |-> tasks, next_id |-> next_id]

\* C16: saving the store to its file and constructing a new store from the
\* file yields the same task map, every reminder field included, and the
\* same next_id (here for the TaskScheduler of scheduler.rs).
C16_SchedulerRoundTrip ==
    scheduler_load_tasks(Some(scheduler_save_tasks(tasks)), Fresh) = [tasks |-> tasks, next_id |-> next_id]

\* ----------------------------------------------------------------- C17
\* C17: no id is returned by two add_task calls, also when the task with
\* the highest id was deleted and the store was constructed again from its
\* file between the calls.
C17_NoIdReuse ==
    \A i, j \in 1..Len(issued) :
        (i < j /\ issued[i].res[1] = "Ok" /\ issued[j].res[1] = "Ok") => issued[i].id # issued[j].id

\* ----------------------------------------------------------------- C18
\* C18: add_task returns the new id, and the task is stored under it in
\* memory, whether or not the write of the tasks file succeeded.
C18_AddTaskNeverFails ==
    \A i \in 1..Len(issued) : issued[i].res = <<"Ok", issued[i].id>>

\* ----------------------------------------------------------------- C19
\* C19: with file writes that succeed, the tasks file holds the task map
\* and next_id of the store after every operation (add_task, update_task,
\* delete_task, add_reminder_to_task, check_reminders, the loop's success
\* and failure commits); before the first write there is no file and the
\* store is empty.
C19_FileMatchesMemory ==
    IF file = None
    THEN DOMAIN tasks = {} /\ next_id = 1
    ELSE file = Some(save_tasks(tasks, next_id))

\* a completed task whose Email reminder was attempted and whose failed
\* delivery was committed, all of it in the file
C19_Witness ==
    \E k \in Keys(tasks) :
        /\ tasks[k[1]].status = "Completed"
        /\ ReminderAt(tasks, k).reminder_type = "Email"
        /\ ReminderAt(tasks, k).retry_count = 1
        /\ ReminderAt(tasks, k).error_message # None
        /\ file = Some(save_tasks(tasks, next_id))

\* ----------------------------------------------------------------- C20
\* the tasks a caller can pass to update_task: a stored task marked
\* completed, or a task built anew
UpdatedTasks ==
    {[tasks[k] EXCEPT !.status = "Completed"] : k \in DOMAIN tasks}
        \cup {NewTask(id, Titles[Len(Titles)], NoTags) : id \in TaskIds}

C20_UpdateResult ==
    \A id \in TaskIds : \A updated_task \in UpdatedTasks :
        LET r == update_task(tasks, id, updated_task)
        IN IF id \notin DOMAIN tasks
           THEN /\ r.res[1] = "Err"
                /\ r.tasks = tasks
                /\ ~r.saved
           ELSE /\ r.res = Ok
                /\ DOMAIN r.tasks = DOMAIN tasks
                /\ r.tasks[id] = updated_task
                /\ \A k \in DOMAIN tasks \ {id} : r.tasks[k] = tasks[k]

\* the step in which the UI completes a task changes that task's status
\* and nothing else in the store
C20_UpdateStep ==
    \A id \in DOMAIN tasks \cap DOMAIN tasks' :
        tasks'[id].status # tasks[id].status =>
            /\ tasks' = [tasks EXCEPT ![id].status = "Completed"]
            /\ next_id' = next_id

\* C20: update_task(id, new_task) returns an error and changes nothing
\* when id is not stored; when id is stored it puts new_task under id and
\* leaves every other task and next_id as they are.
C20_UpdateTask ==
    []C20_UpdateResult /\ [][C20_UpdateStep]_vars

\* one task completed by update_task beside one that is still pending,
\* while a third id is not stored
C20_Witness ==
    \E id, other \in DOMAIN tasks :
        /\ tasks[id].status = "Completed"
        /\ tasks[other].status = "Pending"
        /\ \E absent \in TaskIds : absent \notin DOMAIN tasks

\* ----------------------------------------------------------------- C21
C21_DeleteResult ==
    \A id \in TaskIds :
        LET r == delete_task(tasks, id)
        IN IF id \notin DOMAIN tasks
           THEN /\ r.res[1] = "Err"
                /\ r.tasks = tasks
                /\ ~r.saved
           ELSE /\ r.res = Ok
                /\ id \notin DOMAIN r.tasks
                /\ DOMAIN r.tasks = DOMAIN tasks \ {id}
                /\ \A k \in DOMAIN r.tasks : r.tasks[k] = tasks[k]
                /\ \A t \in Clock : \A order \in Orders(DOMAIN r.tasks) :
                      LET c == check_reminders(r.tasks, t, order)
                      IN /\ \A i \in 1..Len(c.out) : c.out[i].task_id # id
                         /\ id \notin DOMAIN c.tasks

\* the step that removes a task removes that task only and leaves next_id
C21_DeleteStep ==
    \A id \in DOMAIN tasks \ DOMAIN tasks' :
        /\ tasks' = Remove(tasks, id)
        /\ next_id' = next_id

\* C21: delete_task(id) returns an error and changes nothing when id is
\* not stored; when id is stored the task is gone afterwards, no later
\* check_reminders call returns a tuple for it, and the other tasks and
\* next_id are as before.
C21_DeleteTask ==
    []C21_DeleteResult /\ [][C21_DeleteStep]_vars

\* the first task was deleted, the second is stored with a reminder
C21_Witness ==
    /\ Len(issued) = 2
    /\ issued[1].id \notin DOMAIN tasks
    /\ issued[2].id \in DOMAIN tasks
    /\ Len(tasks[issued[2].id].reminders) = 1
    /\ next_id = issued[2].id + 1

\* ----------------------------------------------------------------- C22
C22_AddReminderResult ==
    \A id \in TaskIds : \A reminder_time \in ReminderTimes : \A reminder_type \in ReminderTypes :
        LET r == add_reminder_to_task(tasks, id, reminder_time, reminder_type)
        IN IF id \notin DOMAIN tasks
           THEN /\ r.res[1] = "Err"
                /\ r.tasks = tasks
                /\ ~r.saved
           ELSE LET old == tasks[id].reminders
                    new == r.tasks[id].reminders
                IN /\ r.res = Ok
                   /\ r.saved
                   /\ Len(new) = Len(old) + 1
                   /\ \A i \in 1..Len(old) : new[i] = old[i]
                   /\ new[Len(new)] = [reminder_time |-> reminder_time, reminder_type |-> reminder_type,
                                       sent |-> FALSE, retry_count |-> 0,
                                       last_attempt |-> None, error_message |-> None]
                   /\ DOMAIN r.tasks = DOMAIN tasks
                   /\ r.tasks[id].title = tasks[id].title
                   /\ r.tasks[id].status = tasks[id].status
                   /\ \A k \in DOMAIN tasks \ {id} : r.tasks[k] = tasks[k]

\* the step in which a task's reminder list grows adds one reminder at the
\* end and leaves next_id
C22_AddReminderStep ==
    \A id \in DOMAIN tasks \cap DOMAIN tasks' :
        Len(tasks'[id].reminders) > Len(tasks[id].reminders) =>
            /\ SubSeq(tasks'[id].reminders, 1, Len(tasks[id].reminders)) = tasks[id].reminders
            /\ Len(tasks'[id].reminders) = Len(tasks[id].reminders) + 1
            /\ next_id' = next_id

\* C22: add_reminder_to_task on a stored task appends one reminder with
\* sent = false, retry_count = 0, last_attempt = None and error_message =
\* None at the end of the list and keeps the reminders before it, in
\* order; on an id that is not stored it returns an error and changes
\* nothing.
C22_AddReminder ==
    []C22_AddReminderResult /\ [][C22_AddReminderStep]_vars

\* a reminder appended to the second task and not yet looked at by
\* check_reminders, while a third id is not stored
C22_Witness ==
    \E id \in DOMAIN tasks :
        /\ Len(issued) = 2
        /\ id = issued[2].id
        /\ tasks[id].reminders = <<NewReminder(1, "Sms")>>
        /\ file = Some(save_tasks(tasks, next_id))

\* ----------------------------------------------------------------- C23
\* the positions a caller can pass: usize, so never below 0
Indices == 0..(MaxReminders + 1)

C23_MarkResult ==
    \A id \in TaskIds : \A index \in Indices :
        LET r == mark_reminder_as_sent(tasks, id, index)
        IN (id \notin DOMAIN tasks \/ index >= Len(tasks[id].reminders)) =>
              /\ r.res[1] = "Err"
              /\ r.tasks = tasks
              /\ ~r.saved

\* the loop's success commit for a tuple whose task is gone
C23_MarkStep ==
    (pc = "commit" /\ pc' # "commit" /\ cur.reminder_success /\ Head(queue).reminder_index # None
        /\ Head(queue).task_id \notin DOMAIN tasks) =>
           /\ tasks' = tasks
           /\ file' = file
           /\ pc' \in {"sleep", "dispatch"}

\* C23: mark_reminder_as_sent(task_id, index) returns an error and leaves
\* the store and the file as they are when task_id is not stored or index
\* is not a position of the task's reminder list; the loop goes on after
\* such a call.
C23_MarkNotFound ==
    []C23_MarkResult /\ [][C23_MarkStep]_vars

\* the Sms send for a task deleted after the scan has succeeded, and the
\* loop is about to call mark_reminder_as_sent for it
C23_Witness ==
    /\ pc = "commit"
    /\ TaskGone
    /\ Head(queue).reminder_type = "Sms"
    /\ cur.reminder_success

\* ----------------------------------------------------------------- C24
\* SMS can be delivered with the configuration in force
SmsReady ==
    /\ sms_config # None
    /\ sms_config[1].enabled
    /\ email_config # None

\* C24: send_sms_reminder returns the configuration error, whatever the
\* mail transport would do, when the SMS configuration is absent, when SMS
\* is disabled, or when the email configuration is absent; it returns Ok,
\* and an Sms reminder is sent, only with both configurations set and SMS
\* enabled.
C24_SmsConfigErrors ==
    /\ \A transport \in BOOLEAN :
          LET r == send_sms_reminder(email_config, sms_config, transport)
          IN /\ sms_config = None => r = Err("SMS configuration not set")
             /\ (sms_config # None /\ ~sms_config[1].enabled) => r = Err("SMS is disabled in configuration")
             /\ (sms_config # None /\ sms_config[1].enabled /\ email_config = None) =>
                   r = Err("Email configuration required for SMS")
             /\ r = Ok => (SmsReady /\ transport)
    /\ \A k \in Keys(tasks) :
          (ReminderAt(tasks, k).sent \/ "Sms" \in hist[k].ok) => SmsReady
    /\ (pc = "commit" /\ cur.reminder_success) => SmsReady

\* SMS is enabled but there is no email configuration: the delivery of an
\* Sms reminder has failed with that error and was committed
C24_Witness ==
    /\ sms_config # None
    /\ sms_config[1].enabled
    /\ email_config = None
    /\ \E k \in Keys(tasks) :
          /\ ReminderAt(tasks, k).error_message = Some("Email configuration required for SMS")
          /\ ~ReminderAt(tasks, k).sent

\* ----------------------------------------------------------------- C25
\* the carrier names of the carrier table
CarrierTable ==
    {"att", "at&t", "verizon", "tmobile", "t-mobile", "sprint", "boost",
     "cricket", "metropcs", "virgin", "uscellular"}

\* SMS is enabled for a carrier that is not in the table
UnknownCarrier ==
    /\ sms_config # None
    /\ sms_config[1].enabled
    /\ to_lowercase(sms_config[1].carrier) \notin CarrierTable

\* C25: with a carrier that is not in the carrier table
\* get_sms_gateway_email returns None and send_sms_reminder fails whatever
\* the mail transport would do; every trigger of an Sms reminder still
\* counts in retry_count, no such reminder is ever sent, and after 3
\* triggers no check_reminders call triggers it again.
C25_UnknownCarrier ==
    UnknownCarrier =>
        /\ get_sms_gateway_email(sms_config[1].carrier) = None
        /\ \A transport \in BOOLEAN :
              /\ send_sms_reminder(email_config, sms_config, transport)[1] = "Err"
              /\ email_config # None =>
                    send_sms_reminder(email_config, sms_config, transport) = Err("Unsupported carrier")
        /\ \A k \in Keys(tasks) :
              /\ ~ReminderAt(tasks, k).sent
              /\ hist[k].ok = {}
              /\ ReminderAt(tasks, k).retry_count = hist[k].trig
              /\ ReminderAt(tasks, k).retry_count <= MAX_RETRIES
              /\ ReminderAt(tasks, k).retry_count = MAX_RETRIES =>
                    \A c \in Calls : NotTriggered(Result(c), k, c[1])

\* an Sms reminder for an unknown carrier after its third failed attempt,
\* passed over by a check more than 300 seconds later
C25_Witness ==
    /\ UnknownCarrier
    /\ \E k \in Keys(tasks) :
          /\ ReminderAt(tasks, k).retry_count = MAX_RETRIES
          /\ ReminderAt(tasks, k).error_message = Some("Unsupported carrier")
          /\ now - ReminderAt(tasks, k).last_attempt[1] > RETRY_DELAY

\* ----------------------------------------------------------------- C26
\* reminder k is stored unsent with n attempts, the last one failed, and
\* the run has an instant more than 300 seconds after that attempt
FailedRetryable(k, n) ==
    /\ k \in Keys(tasks)
    /\ ~ReminderAt(tasks, k).sent
    /\ ReminderAt(tasks, k).retry_count = n
    /\ n < MAX_RETRIES
    /\ ReminderAt(tasks, k).error_message # None
    /\ LastInstant - ReminderAt(tasks, k).last_attempt[1] > RETRY_DELAY

\* reminder k was triggered again, or needs no retry any more
RetriedOrSettled(k, n) ==
    \/ k \notin Keys(tasks)
    \/ ReminderAt(tasks, k).sent
    \/ ReminderAt(tasks, k).retry_count > n

ActsFor(res, k) ==
    \/ IndexedTuples(res.out, k) # <<>>
    \/ ReminderAt(res.tasks, k).sent /\ ~ReminderAt(tasks, k).sent

C27_TriggerCountsOnce ==
    \A c \in Calls : \A k \in Keys(tasks) :
        LET r == ReminderAt(tasks, k)
            r2 == ReminderAt(Result(c).tasks, k)
        IN IF ActsFor(Result(c), k)
           THEN r2.last_attempt = Some(c[1]) /\ r2.retry_count = r.retry_count + 1
           ELSE r2.last_attempt = r.last_attempt /\ r2.retry_count = r.retry_count

\* between two states the attempt bookkeeping of a reminder moves only by
\* one trigger, and never while a delivery is sent or committed
C27_AttemptStep ==
    \A k \in Keys(tasks) \cap Keys(tasks') :
        LET r == ReminderAt(tasks, k)
            r2 == ReminderAt(tasks', k)
        IN /\ \/ r2.retry_count = r.retry_count /\ r2.last_attempt = r.last_attempt
              \/ r2.retry_count = r.retry_count + 1 /\ r2.last_attempt = Some(now')
           /\ (pc \in {"dispatch", "sending", "commit"} /\ pc' # pc) =>
                 r2.retry_count = r.retry_count /\ r2.last_attempt = r.last_attempt

\* C27: each trigger of a reminder by check_reminders sets last_attempt to
\* the time of the call and raises retry_count by exactly 1, whatever the
\* reminder type and however many channel actions the trigger emits (Both,
\* All); the delivery and its commit do not move either field, and a
\* reminder the call does not trigger keeps both.
C27_AttemptCountedOnce ==
    []C27_TriggerCountsOnce /\ [][C27_AttemptStep]_vars

\* an All reminder after its first trigger: two tuples in the queue, one
\* attempt counted
C27_Witness ==
    \E k \in Keys(tasks) :
        /\ ReminderAt(tasks, k).reminder_type = "All"
        /\ pc = "dispatch"
        /\ Len(IndexedTuples(queue, k)) = 2
        /\ ReminderAt(tasks, k).retry_count = 1
        /\ ReminderAt(tasks, k).last_attempt = Some(now)

\* ----------------------------------------------------------------- C28
\* the due reminders of tasks titled title that show a desktop notification
NotifyingDue(title, t) ==
    {j \in Keys(tasks) : /\ tasks[j[1]].title = title
                         /\ ReminderAt(tasks, j).reminder_type \in {"Notification", "Both", "All"}
                         /\ SpecEligible(ReminderAt(tasks, j), t)}

\* the desktop notifications a call dispatches under one title
NotificationsFor(res, title) ==
    SelectSeq(res.notif, LAMBDA x : x = title)

C28_BothTrigger ==
    \A c \in Calls : \A k \in Keys(tasks) :
        LET r == ReminderAt(tasks, k)
            res == Result(c)
            title == tasks[k[1]].title
        IN (r.reminder_type = "Both" /\ SpecEligible(r, c[1])) =>
              /\ IndexedTuples(res.out, k) = <<Tuple(k[1], title, "Email", Some(k[2]))>>
              /\ Len(NotificationsFor(res, title)) = Cardinality(NotifyingDue(title, c[1]))
              /\ Len(NotificationsFor(res, title)) >= 1
              /\ ~ReminderAt(res.tasks, k).sent

\* a Both reminder becomes sent only in the commit of a successful Email
\* delivery that carries its position
C28_BothSentStep ==
    \A k \in Keys(tasks) \cap Keys(tasks') :
        (/\ ReminderAt(tasks, k).reminder_type = "Both"
         /\ ~ReminderAt(tasks, k).sent
         /\ ReminderAt(tasks', k).sent) =>
            /\ pc = "commit"
            /\ Head(queue).reminder_type = "Email"
            /\ Head(queue).reminder_index = Some(k[2])
            /\ Head(queue).task_id = k[1]
            /\ cur.reminder_success

\* C28: a check_reminders call that triggers a due Both reminder shows one
\* desktop notification for it and returns exactly one tuple with its
\* position, an Email tuple; the reminder is unsent after the call and is
\* set sent only by the commit of a successful Email delivery.
C28_BothIsNotificationAndEmail ==
    []C28_BothTrigger /\ [][C28_BothSentStep]_vars

\* a Both reminder triggered once, its Email tuple about to be dispatched,
\* still unsent
C28_Witness ==
    \E k \in Keys(tasks) :
        /\ ReminderAt(tasks, k).reminder_type = "Both"
        /\ pc = "dispatch"
        /\ queue # <<>>
        /\ Head(queue) = Tuple(k[1], tasks[k[1]].title, "Email", Some(k[2]))
        /\ ReminderAt(tasks, k).retry_count = 1
        /\ ~ReminderAt(tasks, k).sent

\* ----------------------------------------------------------------- C29
\* the reminder types whose trigger returns a tuple of channel ty
TypesEmitting(ty) ==
    CASE ty = "Email" -> {"Email", "Both", "All"}
      [] ty = "Sms" -> {"Sms", "All"}
      [] OTHER -> {"Notification"}

C29_TupleIndex ==
    \A c \in Calls : \A n \in 1..Len(Result(c).out) :
        LET tu == Result(c).out[n]
        IN /\ tu.reminder_type \in {"Email", "Sms", "Notification"}
           /\ tu.task_id \in DOMAIN tasks
           /\ tu.reminder_type = "Notification" => tu.reminder_index = None
           /\ tu.reminder_type \in {"Email", "Sms"} =>
                 /\ tu.reminder_index # None
                 /\ <<tu.task_id, tu.reminder_index[1]>> \in Keys(tasks)
                 /\ LET r == ReminderAt(tasks, <<tu.task_id, tu.reminder_index[1]>>)
                    IN /\ r.reminder_type \in TypesEmitting(tu.reminder_type)
                       /\ SpecEligible(r, c[1])

\* the commit of a Notification tuple has no position to act on: no
\* reminder is marked, no error message is written, the file is not
\* written again
C29_NotificationCommitStep ==
    (pc = "commit" /\ pc' # "commit" /\ Head(queue).reminder_type = "Notification") =>
        /\ Head(queue).reminder_index = None
        /\ cur.reminder_success
        /\ tasks' = tasks
        /\ file' = file

\* C29: every Email or Sms tuple check_reminders returns carries Some(i),
\* i the position, in the reminder list of the tuple's task as it is at the
\* call, of a due reminder whose type emits that channel; every
\* Notification tuple carries None, so the loop's commit of a Notification
\* tuple neither marks a reminder sent nor writes an error message.
C29_IndexOnlyForDeferred ==
    []C29_TupleIndex /\ [][C29_NotificationCommitStep]_vars

\* the commit of a Notification tuple is about to run, its reminder already
\* marked sent by check_reminders
C29_Witness ==
    /\ pc = "commit"
    /\ Head(queue).reminder_type = "Notification"
    /\ Head(queue).reminder_index = None
    /\ cur.reminder_success
    /\ \E k \in Keys(tasks) :
          /\ k[1] = Head(queue).task_id
          /\ ReminderAt(tasks, k).reminder_type = "Notification"
          /\ ReminderAt(tasks, k).sent

\* ----------------------------------------------------------------- C30
\* C30: in every reachable state no stored task carries the same label
\* twice in its tags, whatever tag text add_task was reached with.
C30_NoDuplicateTags ==
    \A id \in DOMAIN tasks :
        \A i, j \in 1..Len(tasks[id].tags) : i # j => tasks[id].tags[i] # tasks[id].tags[j]

\* ----------------------------------------------------------------- C31
\* C31: send_sms_reminder always hands the transport a body of at most 160
\* characters: a message of at most 160 characters unchanged, a longer one
\* as its first 157 characters followed by "...".
C31_SmsBodyAtMost160 ==
    /\ pc # "panicked"
    /\ (pc = "commit" /\ "body" \in DOMAIN cur /\ cur.body # None) =>
          LET message == format_sms(Head(queue).title)
              body == cur.body[1]
          IN /\ Len(body) <= 160
             /\ Len(message) <= 160 => body = message
             /\ Len(message) > 160 => body = SubSeq(message, 1, 157) \o <<".", ".", ".">>

\* ----------------------------------------------------------------- C32
\* reminder k is in a terminal state
Terminal(ts, k) ==
    ReminderAt(ts, k).sent \/ ReminderAt(ts, k).retry_count >= MAX_RETRIES

C32_AttemptsBounded ==
    \A k \in Keys(tasks) :
        /\ ReminderAt(tasks, k).retry_count <= MAX_RETRIES
        /\ Terminal(tasks, k) =>
              \A c \in Calls : /\ IndexedTuples(Result(c).out, k) = <<>>
                                /\ ReminderAt(Result(c).tasks, k) = ReminderAt(tasks, k)

\* a terminal reminder stays terminal and is not attempted again
C32_TerminalStep ==
    \A k \in Keys(tasks) \cap Keys(tasks') :
        Terminal(tasks, k) =>
            /\ Terminal(tasks', k)
            /\ ReminderAt(tasks', k).retry_count = ReminderAt(tasks, k).retry_count
            /\ ReminderAt(tasks', k).last_attempt = ReminderAt(tasks, k).last_attempt

\* no stored reminder is owed an attempt any more: each is sent, or has
\* used its attempts, or was attempted within RETRY_DELAY of the last
\* instant the clock of the model has
C32_NoneOwed ==
    \A k \in Keys(tasks) : ~SpecEligible(ReminderAt(tasks, k), LastInstant)

\* C32: while the loop keeps running and time goes on, every due reminder
\* of a task that is not deleted is attempted until it is sent or has been
\* tried 3 times; retry_count never passes 3, and a reminder that is sent
\* or has reached 3 attempts is never triggered again.
C32_ReachesTerminal ==
    /\ []C32_AttemptsBounded
    /\ [][C32_TerminalStep]_vars
    /\ []<>C32_NoneOwed

\* a reminder that used its three attempts without success, the loop asleep
C32_Witness ==
    \E k \in Keys(tasks) :
        /\ ReminderAt(tasks, k).retry_count = MAX_RETRIES
        /\ ~ReminderAt(tasks, k).sent
        /\ hist[k].trig = MAX_RETRIES
        /\ pc = "sleep"
        /\ queue = <<>>

\* ----------------------------------------------------------------- C33
\* the due reminders under one title whose desktop notification has not
\* been dispatched yet: those that were never triggered
FirstNotifications(title, t) ==
    {j \in NotifyingDue(title, t) : ReminderAt(tasks, j).retry_count = 0}

\* C33: a check_reminders call dispatches a desktop notification only for
\* reminders it triggers for the first time, so the notification of a Both
\* or All reminder is shown at most once and a retry of its Email or Sms
\* leg does not show it again.
C33_NotificationAtMostOnce ==
    \A c \in Calls : \A id \in DOMAIN tasks :
        Len(NotificationsFor(Result(c), tasks[id].title))
            = Cardinality(FirstNotifications(tasks[id].title, c[1]))

\* ----------------------------------------------------------------- C34
\* C34: every attempt check_reminders counts for an Email or Sms reminder
\* is followed by a send and the commit of its result; so whenever the
\* loop is asleep, with no tuple left to process, each such reminder that
\* was attempted is either marked sent or carries the error of a failed
\* delivery.
C34_AttemptIsDelivered ==
    (pc = "sleep" /\ queue = <<>>) =>
        \A k \in Keys(tasks) :
            (/\ ReminderAt(tasks, k).reminder_type \in {"Email", "Sms"}
             /\ ReminderAt(tasks, k).retry_count >= 1
             /\ ~ReminderAt(tasks, k).sent) =>
                ReminderAt(tasks, k).error_message # None

\* ----------------------------------------------------------------- C35
\* a stored reminder keeps its task id and its position, whatever the UI
\* does: a list only grows at its end, the time and type of a reminder do
\* not change, and the id of a deleted task is not given to another task
C35_PositionStep ==
    /\ \A k \in Keys(tasks) :
          k[1] \in DOMAIN tasks' =>
              /\ k \in Keys(tasks')
              /\ ReminderAt(tasks', k).reminder_time = ReminderAt(tasks, k).reminder_time
              /\ ReminderAt(tasks', k).reminder_type = ReminderAt(tasks, k).reminder_type
              /\ ReminderAt(tasks', k).retry_count >= ReminderAt(tasks, k).retry_count
    /\ \A id \in DOMAIN tasks' \ DOMAIN tasks : id >= next_id

\* the commit of a deferred tuple acts on the reminder at the tuple's
\* position, which was triggered for the tuple's channel, or on nothing
C35_CommitStep ==
    (pc = "commit" /\ pc' # "commit" /\ Head(queue).reminder_index # None) =>
        /\ DOMAIN tasks' = DOMAIN tasks
        /\ Keys(tasks') = Keys(tasks)
        /\ \A j \in Keys(tasks) \ {InHand} : ReminderAt(tasks', j) = ReminderAt(tasks, j)
        /\ \A id \in DOMAIN tasks : [tasks'[id] EXCEPT !.reminders = <<>>] = [tasks[id] EXCEPT !.reminders = <<>>]
        /\ InHand \in Keys(tasks) =>
              /\ ReminderAt(tasks, InHand).retry_count >= 1
              /\ ReminderAt(tasks, InHand).reminder_type \in TypesEmitting(Head(queue).reminder_type)
              /\ ReminderAt(tasks', InHand).sent = (ReminderAt(tasks, InHand).sent \/ cur.reminder_success)
        /\ InHand \notin Keys(tasks) => tasks' = tasks

\* C35: with add_task, add_reminder_to_task, delete_task and the marking
\* of a task as completed running between the loop's scan and its commit,
\* the (task_id, index) pair of a returned tuple keeps denoting the
\* reminder that was triggered for as long as its task is stored; the
\* commit updates that reminder, or nothing when the task is gone, and
\* never another reminder.
C35_CommitHitsTriggered ==
    [][C35_PositionStep /\ C35_CommitStep]_vars

\* a successful delivery for position 0 was committed while the task,
\* completed in the meantime, holds a second reminder that is untouched
C35_Witness ==
    \E id \in DOMAIN tasks :
        /\ tasks[id].status = "Completed"
        /\ Len(tasks[id].reminders) = 2
        /\ tasks[id].reminders[1].sent
        /\ tasks[id].reminders[1].retry_count = 1
        /\ tasks[id].reminders[2].retry_count = 0
        /\ ~tasks[id].reminders[2].sent
        /\ pc = "sleep"

\* ----------------------------------------------------------------- C36
\* C36: every entry of the task map is stored under its own id and every
\* key is below next_id, in memory and in what a reload would read from the
\* file, after any sequence of store operations, failed writes and
\* restarts.
C36_KeyIsId ==
    LET loaded == load_tasks(file, [tasks |-> tasks, next_id |-> next_id])
    IN /\ \A k \in DOMAIN tasks : tasks[k].id = k /\ k < next_id
       /\ \A k \in DOMAIN loaded.tasks : loaded.tasks[k].id = k /\ k < loaded.next_id

\* after a restart that found an older file: task 2 was added and its write
\* failed, the reloaded store holds task 1 only, completed, and hands out 2
\* next
C36_Witness ==
    /\ Len(issued) = 2
    /\ DOMAIN tasks = {1}
    /\ tasks[1].id = 1
    /\ tasks[1].status = "Completed"
    /\ next_id = 2
    /\ file = Some(save_tasks(tasks, next_id))

\* ----------------------------------------------------------------- C37
\* reminder r2 differs from r in sent, retry_count and last_attempt at most
SameButAttempt(r, r2) ==
    [r2 EXCEPT !.sent = r.sent, !.retry_count = r.retry_count, !.last_attempt = r.last_attempt] = r

C37_CallFrame ==
    \A c \in Calls :
        LET res == Result(c)
        IN /\ DOMAIN res.tasks = DOMAIN tasks
           /\ \A id \in DOMAIN tasks :
                 /\ [res.tasks[id] EXCEPT !.reminders = <<>>] = [tasks[id] EXCEPT !.reminders = <<>>]
                 /\ Len(res.tasks[id].reminders) = Len(tasks[id].reminders)
           /\ \A k \in Keys(tasks) :
                 /\ SameButAttempt(ReminderAt(tasks, k), ReminderAt(res.tasks, k))
                 /\ ~SpecEligible(ReminderAt(tasks, k), c[1]) =>
                       ReminderAt(res.tasks, k) = ReminderAt(tasks, k)
           /\ (\A k \in Keys(tasks) : ~SpecEligible(ReminderAt(tasks, k), c[1])) =>
                 /\ res.tasks = tasks
                 /\ res.out = <<>>
                 /\ ~res.saved

\* a step in which some reminder is triggered is a check_reminders call:
\* it leaves next_id and the configurations alone and writes the store;
\* a step that only reads the clock leaves store and file alone
C37_CheckStep ==
    /\ (\E k \in Keys(tasks) \cap Keys(tasks') :
            ReminderAt(tasks', k).retry_count > ReminderAt(tasks, k).retry_count) =>
          /\ next_id' = next_id
          /\ email_config' = email_config
          /\ sms_config' = sms_config
          /\ DOMAIN tasks' = DOMAIN tasks
          /\ file' = Some(save_tasks(tasks', next_id))
    /\ (now' # now /\ \A k \in Keys(tasks) : ~SpecEligible(ReminderAt(tasks, k), now')) =>
          /\ tasks' = tasks
          /\ next_id' = next_id
          /\ file' = file

\* C37: check_reminders changes nothing but the sent, retry_count and
\* last_attempt fields of the reminders it triggers: reminders that are
\* not eligible, the other fields of reminders and tasks, the set of ids,
\* next_id and the configurations stay as they are, and a call that
\* triggers nothing changes neither the store nor the file.
C37_CheckRemindersFrame ==
    []C37_CallFrame /\ [][C37_CheckStep]_vars

\* an Email reminder triggered a second time: the error of its first
\* attempt is still there, the file holds the new bookkeeping
C37_Witness ==
    \E k \in Keys(tasks) :
        /\ ReminderAt(tasks, k).reminder_type = "Email"
        /\ ReminderAt(tasks, k).retry_count = 2
        /\ ReminderAt(tasks, k).error_message # None
        /\ ReminderAt(tasks, k).last_attempt = Some(now)
        /\ IndexedTuples(queue, k) # <<>>
        /\ file = Some(save_tasks(tasks, next_id))

\* ----------------------------------------------------------------- C38
\* the background thread holds the guard during a send and at no other
\* point; at each point where it asks for the lock (scan, send, commit) it
\* holds none
C38_GuardOnlyWhileSending ==
    /\ lock \in {"free", "bg"}
    /\ lock = "bg" <=> pc = "sending"

====
